---- MODULE Spec2Model ----
(***************************************************************************)
(* Model of src/app.py: the AI Analysis API.  Every route handler is one   *)
(* atomic action (the handlers share no mutable state and the text, url    *)
(* and video handlers contain no await).  The state is the last request    *)
(* (with the dependency status the environment had when it arrived), the   *)
(* response it produced and the trace of calls the handler made while      *)
(* producing it.  An operation with several possible outcomes (a random    *)
(* draw, a call into the inference library) is the set of its outcomes.    *)
(*                                                                         *)
(* Scores are exact rationals: a score s stands for s / One.  random()     *)
(* returns r / RandSteps for r in 0 .. RandSteps-1, i.e. a value of [0,1). *)
(* Strings that the claims look into are sequences of one-character        *)
(* strings.                                                                *)
(***************************************************************************)
EXTENDS Integers, Sequences, FiniteSets, TLC

VARIABLES req, resp, trace

vars == <<req, resp, trace>>

----------------------------------------------------------------------------
(* Bounds *)

RandSteps == 4          \* resolution of random(): values r / RandSteps
MaxLen == 2             \* longest exhaustively enumerated short input

(* Program constants *)

TruncLen == 512         \* request.text[:512]
KeyTermsLimit == 5      \* .split()[:5]

One == 10 * RandSteps               \* the score 1.0
MockLow == 3 * RandSteps            \* 0.3
MockHigh == 9 * RandSteps           \* 0.9
ImageLow == 5 * RandSteps           \* 0.5
ImageHigh == 9 * RandSteps          \* 0.9
MisinfoThreshold == 6 * RandSteps   \* 0.6

----------------------------------------------------------------------------
(* Inputs and environment outcomes *)

Whitespace == {" ", "\t", "\n"}

Alphabet == {"a", " "}

ShortTexts == UNION {[1..n -> Alphabet] : n \in 0..MaxLen}

\* n repetitions of the token "a" followed by one separator
Repeat(n, sep) == [i \in 1..(2 * n) |-> IF i % 2 = 1 THEN "a" ELSE sep]

ManyTokenTexts ==
    {<<"\t">>, Repeat(KeyTermsLimit - 1, " "), Repeat(KeyTermsLimit, "\t"),
     <<" ">> \o Repeat(KeyTermsLimit + 1, "\n")}

\* a text of n characters whose characters beyond position TruncLen are "z"
Fill(n) ==
    [i \in 1..n |-> IF i > TruncLen THEN "z"
                    ELSE IF i % 100 = 0 THEN " " ELSE "a"]

LongTexts == {Fill(TruncLen - 1), Fill(TruncLen), Fill(TruncLen + 1)}

Texts == ShortTexts \cup ManyTokenTexts \cup LongTexts

Urls == {<<>>, <<"a">>} \cup ManyTokenTexts

\* outcome of executing "from transformers import pipeline"
ImportOutcomes == {"ok", "ImportError", "RuntimeError"}

Labels == {"POSITIVE", "NEGATIVE"}

\* the score of the top label of a softmax over two labels
ClassifierScores == {One \div 2, One}

NoResult == [raised |-> TRUE, label |-> "", score |-> 0]

\* outcome of classifier(text): it raises, or returns [{label, score}]
InvokeOutcomes ==
    {NoResult} \cup [raised : {FALSE}, label : Labels, score : ClassifierScores]

\* random() including the end point 1.0
RandomUnitClosed == 0..RandSteps

\* values random() can return, in units of 1 / RandSteps: [0, 1)
RandomUnit == 0..(RandSteps - 1)

Dims == {1, 9, 10, 20}

DecodeErrors == {"cannot identify image file", "broken data stream"}

Uploads ==
    [kind : {"image"}, w : Dims, h : Dims, err : {""}]
      \cup [kind : {"garbage"}, w : {0}, h : {0}, err : DecodeErrors]

VideoBodies == {<<>>, <<"v">>}

----------------------------------------------------------------------------
(* Helpers *)

Min(a, b) == IF a < b THEN a ELSE b

Event(op, arg, out) == [op |-> op, arg |-> arg, out |-> out]

HasOp(op) == \E i \in 1..Len(trace) : trace[i].op = op

OpCount(op) == Cardinality({i \in 1..Len(trace) : trace[i].op = op})

\* seq[:n]
Slice(seq, n) == SubSeq(seq, 1, Min(Len(seq), n))

\* the first index >= i of s that holds a non-whitespace character, else 0
TokenStart(s, i, ws) ==
    IF \E j \in i..Len(s) : s[j] \notin ws
    THEN CHOOSE j \in i..Len(s) :
            s[j] \notin ws /\ \A k \in i..(j - 1) : s[k] \in ws
    ELSE 0

\* the last index of the token of s that starts at index i
TokenEnd(s, i, ws) ==
    CHOOSE j \in i..Len(s) :
        /\ j = Len(s) \/ s[j + 1] \in ws
        /\ \A k \in i..(j - 1) : k = Len(s) \/ s[k + 1] \notin ws

RECURSIVE SplitFrom(_, _, _, _)
\* scan s from index i, appending each maximal run of non-separators to acc
SplitFrom(s, i, ws, acc) ==
    LET b == TokenStart(s, i, ws)
    IN IF b = 0 THEN acc
       ELSE LET e == TokenEnd(s, b, ws)
            IN SplitFrom(s, e + 1, ws, Append(acc, SubSeq(s, b, e)))

\* str.split() with no separator: maximal runs of non-whitespace
split(s) == SplitFrom(s, 1, Whitespace, <<>>)

RECURSIVE Dec(_)
\* the decimal digits of a non-negative integer, as str.format prints it
Dec(n) ==
    LET d == <<"0", "1", "2", "3", "4", "5", "6", "7", "8", "9">>[(n % 10) + 1]
    IN IF n < 10 THEN <<d>> ELSE Append(Dec(n \div 10), d)

\* {x:.2f}: the score in hundredths, rounded to nearest
Format2f(score) == (score * 100 + One \div 2) \div One

\* random.uniform(a, b) == a + (b - a) * random(), with random() = r / RandSteps
uniform_unscaled(a, b, r) == a + (b - a) * r

uniform(a, b, r) == a + ((b - a) * r) \div RandSteps

----------------------------------------------------------------------------
(* The program *)

\* the outcome of the most recent import attempt before the coming request
LastImport == IF req.route = "text" THEN req.dep ELSE req.prev

None == "None"

import_transformers_cached(d) ==
    LET seen == IF LastImport = "none" THEN d ELSE LastImport
    IN [raised |-> seen = "RuntimeError",
        value |-> IF seen = "ok" THEN "pipeline" ELSE None]

import_transformers(d) ==
    IF d = "ok" THEN [raised |-> FALSE, value |-> "pipeline"]
    ELSE IF d = "ImportError" THEN [raised |-> FALSE, value |-> None]
    ELSE [raised |-> TRUE, value |-> None]

is_misinfo_inverted(mock_score) == mock_score > MisinfoThreshold

is_misinfo(mock_score) == mock_score < MisinfoThreshold

key_terms(input_text) ==
    IF Len(input_text) > 0 THEN Slice(split(input_text), KeyTermsLimit) ELSE <<>>

mock_analysis(content_type, input_text) ==
    {LET mock_score == uniform(MockLow, MockHigh, r)
     IN [type |-> content_type,
         credibilityScore |-> mock_score,
         analysis |-> <<"Analysis complete. Content scored ", Format2f(mock_score),
                        " for credibility.">>,
         flags |-> [potentialMisinformation |-> is_misinfo(mock_score),
                    needsFactChecking |-> is_misinfo(mock_score),
                    biasDetected |-> bias,
                    manipulatedContent |-> manip],
         sources |-> <<"Memory-Optimized Analysis">>,
         details |-> [sentiment |-> "N/A",
                      confidence |-> mock_score,
                      keyTerms |-> key_terms(input_text)]]
       : r \in RandomUnit, bias \in BOOLEAN, manip \in BOOLEAN}

Ok(result) == [status |-> 200, body |-> [result |-> result]]

\* an exception that leaves the handler: the framework answers 500
Unhandled == [status |-> 500, detail |-> <<"Internal Server Error">>]

HTTPException(status_code, detail) == [status |-> status_code, detail |-> detail]

classifier_input_full(text) == text

classifier_input(text) == Slice(text, TruncLen)

\* return {"result": mock_analysis("text", request.text)}, after the calls in done
text_fallback(text, done) ==
    {[resp |-> Ok(result), trace |-> Append(done, Event("mock", text, NoResult))]
       : result \in mock_analysis("text", text)}

\* the try block: acquire the classifier, invoke it, release it, build the result
text_inference(text, done) ==
    LET acquired == Append(done, Event("acquire", <<>>, NoResult))
        invoked(inv) == Append(acquired, Event("classifier", classifier_input(text), inv))
    IN text_fallback(text, Append(done, Event("pipeline_failed", <<>>, NoResult)))
         \cup text_fallback(text, invoked(NoResult))
         \cup {[resp |-> Ok([type |-> "text",
                             credibilityScore |-> inv.score,
                             analysis |-> <<"Text sentiment: ", inv.label>>,
                             simplified |-> TRUE]),
                trace |-> invoked(inv)
                            \o <<Event("del", <<>>, NoResult), Event("gc", <<>>, NoResult)>>]
                 : inv \in InvokeOutcomes \ {NoResult}}

analyze_text(text, d) ==
    LET pipeline == import_transformers(d)
        imported == <<Event("import", <<>>, NoResult)>>
    IN IF pipeline.raised THEN {[resp |-> Unhandled, trace |-> imported]}
       ELSE IF pipeline.value = None THEN text_fallback(text, imported)
       ELSE text_inference(text, imported)

analyze_url(url) ==
    {[resp |-> Ok(result), trace |-> <<Event("mock", url, NoResult)>>]
       : result \in mock_analysis("url", url)}

\* Image.open(io.BytesIO(image_bytes))
Image_open(upload) ==
    IF upload.kind = "image"
    THEN [raised |-> FALSE, size |-> <<upload.w, upload.h>>, msg |-> ""]
    ELSE [raised |-> TRUE, size |-> <<0, 0>>, msg |-> upload.err]

image_analysis_swapped(size) ==
    <<"Image processed: ", Dec(size[2]), "x", Dec(size[1]), " pixels">>

image_analysis(size) ==
    <<"Image processed: ", Dec(size[1]), "x", Dec(size[2]), " pixels">>

image_error_detail_fixed(e) == <<"Image processing failed">>

image_error_detail(e) == <<"Image processing failed: ", e>>

analyze_image(upload) ==
    LET image == Image_open(upload)
    IN IF image.raised
       THEN {HTTPException(500, image_error_detail(image.msg))}
       ELSE {Ok([type |-> "image",
                 credibilityScore |-> uniform(ImageLow, ImageHigh, r),
                 analysis |-> image_analysis(image.size),
                 basic_analysis |-> TRUE]) : r \in RandomUnit}

analyze_video_error == HTTPException(500, <<"Video analysis failed">>)

analyze_video == HTTPException(501, <<"Video analysis not implemented">>)

health_check ==
    [status |-> 200, body |-> [status |-> "ok", message |-> "Service is healthy"]]

root ==
    [status |-> 200,
     body |-> [message |-> "AI Analysis API is running",
               status |-> "healthy",
               memory_optimized |-> TRUE,
               endpoints |-> [text |-> "/analyze/text", url |-> "/analyze/url",
                              image |-> "/analyze/image", health |-> "/health"]]]

----------------------------------------------------------------------------
(* Actions: one per route.  Every request arrives with the dependency in   *)
(* some status d, which the environment may have changed since the last    *)
(* request.                                                                *)

\* req.prev is the outcome of the last import attempt before this request
Request(route, input, d) ==
    [route |-> route, input |-> input, dep |-> d, prev |-> LastImport]

Init ==
    /\ req = [route |-> "none", input |-> <<>>, dep |-> "none", prev |-> "none"]
    /\ resp = [status |-> 0, detail |-> <<>>]
    /\ trace = <<>>

GetRoot ==
    \E d \in ImportOutcomes :
        /\ req' = Request("root", <<>>, d)
        /\ resp' = root
        /\ trace' = <<>>

GetHealth ==
    \E d \in ImportOutcomes :
        /\ req' = Request("health", <<>>, d)
        /\ resp' = health_check
        /\ trace' = <<>>

PostAnalyzeText ==
    \E text \in Texts, d \in ImportOutcomes :
        \E out \in analyze_text(text, d) :
            /\ req' = Request("text", text, d)
            /\ resp' = out.resp
            /\ trace' = out.trace

PostAnalyzeUrl ==
    \E url \in Urls, d \in ImportOutcomes :
        \E out \in analyze_url(url) :
            /\ req' = Request("url", url, d)
            /\ resp' = out.resp
            /\ trace' = out.trace

PostAnalyzeImage ==
    \E upload \in Uploads, d \in ImportOutcomes :
        \E out \in analyze_image(upload) :
            /\ req' = Request("image", upload, d)
            /\ resp' = out
            /\ trace' = <<>>

PostAnalyzeVideo ==
    \E body \in VideoBodies, d \in ImportOutcomes :
        /\ req' = Request("video", body, d)
        /\ resp' = analyze_video
        /\ trace' = <<>>

Next ==
    \/ GetRoot
    \/ GetHealth
    \/ PostAnalyzeText
    \/ PostAnalyzeUrl
    \/ PostAnalyzeImage
    \/ PostAnalyzeVideo

Spec == Init /\ [][Next]_vars

----------------------------------------------------------------------------
(* Vocabulary of the properties *)

Result == resp.body.result

Score == Result.credibilityScore

\* the handler answered from the classifier's output
Inferred == req.route = "text" /\ resp.status = 200 /\ ~HasOp("mock")

\* the handler answered from the mock scorer
Mocked == resp.status = 200 /\ HasOp("mock")

Blank == {" ", "\t", "\n"}

\* the indices of s at which a whitespace-separated token begins
TokenStarts(s) ==
    {i \in 1..Len(s) : s[i] \notin Blank /\ (i = 1 \/ s[i - 1] \in Blank)}

\* the token of s that begins at index i
TokenAt(s, i) ==
    LET e == CHOOSE j \in i..Len(s) :
                /\ \A k \in i..j : s[k] \notin Blank
                /\ j = Len(s) \/ s[j + 1] \in Blank
    IN [k \in 1..(e - i + 1) |-> s[i + k - 1]]

\* the position of the token beginning at i among the tokens of s
Rank(s, i) == Cardinality({j \in TokenStarts(s) : j <= i})

DigitValue ==
    "0" :> 0 @@ "1" :> 1 @@ "2" :> 2 @@ "3" :> 3 @@ "4" :> 4 @@
    "5" :> 5 @@ "6" :> 6 @@ "7" :> 7 @@ "8" :> 8 @@ "9" :> 9

RECURSIVE DecValue(_)
\* the number a sequence of decimal digits denotes
DecValue(digits) ==
    IF digits = <<>> THEN 0
    ELSE 10 * DecValue(SubSeq(digits, 1, Len(digits) - 1))
           + DigitValue[digits[Len(digits)]]

Canonical(digits) == Len(digits) = 1 \/ (Len(digits) > 1 /\ digits[1] # "0")

----------------------------------------------------------------------------
(* Properties *)

\* C1: POST /analyze/text never fails: whatever the text and whatever the
\* outcome of the import, the acquisition and the invocation, the response is
\* a success carrying a result, and every error path ends in the mock
\* scorer's result for type "text".
TextNeverFails ==
    req.route = "text" =>
        /\ resp.status = 200
        /\ "result" \in DOMAIN resp.body
        /\ Result.type = "text"
        /\ HasOp("mock") \/ HasOp("del")

\* C2: every successful response of /analyze/text, /analyze/url and
\* /analyze/image has a credibilityScore in [0, 1], from the mock scorer or
\* from the classifier.
CredibilityScoreInUnitRange ==
    (req.route \in {"text", "url", "image"} /\ resp.status = 200) =>
        (0 <= Score /\ Score <= One)

CredibilityScoreWitness == Inferred /\ HasOp("del") /\ Score = One

\* C3: POST /analyze/url always succeeds with the mock scorer's result of type
\* "url", attempts no inference whatever the dependency's status, and both
\* potentialMisinformation and needsFactChecking equal (score < 0.6).
UrlAlwaysMock ==
    req.route = "url" =>
        /\ resp.status = 200
        /\ Result.type = "url"
        /\ DOMAIN Result
             = {"type", "credibilityScore", "analysis", "flags", "sources", "details"}
        /\ Len(trace) = 1 /\ trace[1].op = "mock" /\ trace[1].arg = req.input
        /\ Result.flags.potentialMisinformation = (10 * Score < 6 * One)
        /\ Result.flags.needsFactChecking = (10 * Score < 6 * One)

UrlAlwaysMockWitness ==
    /\ req.route = "url"
    /\ req.dep = "ok"
    /\ resp.status = 200
    /\ 10 * Score >= 6 * One
    /\ ~Result.flags.needsFactChecking

\* C4: the mock scorer's score lies in [0.3, 0.9) with 0.9 excluded,
\* details.confidence is that score, and details.keyTerms is the first 5
\* whitespace-separated tokens of the input (all of them if fewer, none for
\* the empty input).
MockScorerContract ==
    Mocked =>
        LET terms == Result.details.keyTerms
            starts == TokenStarts(req.input)
        IN /\ Result.type = req.route
           /\ 3 * One <= 10 * Score /\ 10 * Score < 9 * One
           /\ Result.details.confidence = Score
           /\ Len(terms) = Min(5, Cardinality(starts))
           /\ \A i \in starts :
                Rank(req.input, i) <= 5 => terms[Rank(req.input, i)] = TokenAt(req.input, i)
           /\ req.input = <<>> => terms = <<>>

MockScorerWitness ==
    /\ Mocked
    /\ Cardinality(TokenStarts(req.input)) > 5
    /\ Len(Result.details.keyTerms) = 5
    /\ \E i \in 1..Len(req.input) : req.input[i] = "\n"

\* C5: an upload that cannot be decoded as an image is answered with status
\* 500 whose detail carries the decode error's message; never with a 200 and
\* never with a mock result.
ImageDecodeFailure ==
    (req.route = "image" /\ req.input.kind = "garbage") =>
        /\ resp.status = 500
        /\ resp.detail = <<"Image processing failed: ", req.input.err>>
        /\ ~HasOp("mock")

ImageDecodeFailureWitness ==
    /\ req.route = "image"
    /\ req.input.kind = "garbage"
    /\ req.input.err = "broken data stream"
    /\ resp.status = 500

\* C6: an upload that decodes as a W x H image is answered with a success of
\* type "image", analysis "Image processed: WxH pixels" with W before H, and
\* a credibilityScore in [0.5, 0.9] that is not a mock scorer result.
ImageSuccess ==
    (req.route = "image" /\ req.input.kind = "image") =>
        /\ resp.status = 200
        /\ Result.type = "image"
        /\ Len(Result.analysis) = 5
        /\ Result.analysis[1] = "Image processed: "
        /\ Canonical(Result.analysis[2])
        /\ DecValue(Result.analysis[2]) = req.input.w
        /\ Result.analysis[3] = "x"
        /\ Canonical(Result.analysis[4])
        /\ DecValue(Result.analysis[4]) = req.input.h
        /\ Result.analysis[5] = " pixels"
        /\ 5 * One <= 10 * Score /\ 10 * Score <= 9 * One
        /\ ~HasOp("mock")
        /\ DOMAIN Result = {"type", "credibilityScore", "analysis", "basic_analysis"}

ImageSuccessWitness ==
    /\ req.route = "image"
    /\ req.input.kind = "image"
    /\ req.input.w = 10
    /\ req.input.h = 20
    /\ resp.status = 200
    /\ Result.analysis = <<"Image processed: ", <<"1", "0">>, "x", <<"2", "0">>, " pixels">>

\* C7: POST /analyze/video always fails with status 501 and the message
\* "Video analysis not implemented", for any input, after any earlier
\* requests and whatever the dependency's status.
VideoNotImplemented ==
    req.route = "video" =>
        /\ resp.status = 501
        /\ resp.detail = <<"Video analysis not implemented">>
        /\ trace = <<>>

VideoNotImplementedWitness ==
    /\ req.route = "video"
    /\ req.input = <<>>
    /\ req.dep = "ok"
    /\ req.prev = "ok"
    /\ resp.status = 501

\* C8: in POST /analyze/text an acquired classifier is explicitly released
\* before the handler returns on every exit path, also when the invocation
\* raises and the handler falls back to the mock scorer.
ClassifierReleasedOnEveryExit ==
    (req.route = "text" /\ HasOp("acquire")) => HasOp("del")

\* C9: once acquired, the classifier is invoked exactly once on the first 512
\* characters of the text (the whole text if shorter); the mock scorer
\* receives the full text; a success is {type "text", the classifier's score,
\* "Text sentiment: <label>", simplified true}.
ClassifierInputTruncated ==
    req.route = "text" =>
        /\ HasOp("acquire") =>
              /\ OpCount("classifier") = 1
              /\ \A i \in 1..Len(trace) :
                    trace[i].op = "classifier" =>
                        /\ Len(trace[i].arg) = Min(Len(req.input), 512)
                        /\ \A k \in 1..Len(trace[i].arg) : trace[i].arg[k] = req.input[k]
        /\ ~HasOp("acquire") => OpCount("classifier") = 0
        /\ \A i \in 1..Len(trace) : trace[i].op = "mock" => trace[i].arg = req.input
        /\ Inferred =>
              \E i \in 1..Len(trace) :
                  /\ trace[i].op = "classifier"
                  /\ ~trace[i].out.raised
                  /\ Result = [type |-> "text",
                               credibilityScore |-> trace[i].out.score,
                               analysis |-> <<"Text sentiment: ", trace[i].out.label>>,
                               simplified |-> TRUE]

ClassifierInputWitness ==
    /\ Inferred
    /\ Len(req.input) > 512
    /\ \E i \in 1..Len(trace) : trace[i].op = "classifier" /\ Len(trace[i].arg) = 512

\* C10: no handler keeps state across calls: GET /health always answers
\* {status "ok", message "Service is healthy"} and calls nothing, and every
\* POST /analyze/text attempts the import again, so that it takes the
\* inference path exactly when the dependency is available at that request,
\* whatever the earlier attempts gave.
StatelessHandlers ==
    /\ req.route = "health" =>
          /\ resp = [status |-> 200,
                     body |-> [status |-> "ok", message |-> "Service is healthy"]]
          /\ trace = <<>>
    /\ req.route = "text" =>
          /\ trace[1].op = "import"
          /\ OpCount("import") = 1
          /\ (req.dep = "ok") <=> (HasOp("acquire") \/ HasOp("pipeline_failed"))
          /\ (req.dep = "ImportError") <=> (Len(trace) = 2 /\ trace[2].op = "mock")

StatelessHandlersWitness ==
    /\ req.route = "text"
    /\ req.prev = "ImportError"
    /\ req.dep = "ok"
    /\ Inferred

====
